---- MODULE Spec2Model ----
(***************************************************************************)
(* The css selector builder of src/src/05-objects-tasks.js: class Builder  *)
(* (constructor, isAlreadyDefined, checkOrder, stringify and the six       *)
(* fragment methods) and the cssSelectorBuilder facade with combine.       *)
(*                                                                         *)
(* JavaScript strings are TLA+ strings (\o is +, Len is .length), arrays   *)
(* are sequences, objects are records.  A thrown Error is the message the  *)
(* code gives it; NoError stands for a normal return.                      *)
(***************************************************************************)
EXTENDS Integers, Sequences, FiniteSets, TLC

\* ------------------------------------------------------------------ bounds

\* Longest chain of fragment calls made on one builder (Spec).
MaxCalls == 3

\* Fragment calls plus combine calls made in one run of SpecCombine.
MaxOps == 3

\* Argument strings of the fragment calls; the empty string is one of them.
Values == {"", "a", "b"}

\* Argument strings of the fragment calls in SpecCombine.
CombineValues == {"a"}

\* Combinator strings handed to combine; the space is one of them.
Combinators == {" ", "+"}

\* ------------------------------------------------- errors and selector types

NoError == ""

DuplicateError ==
  "Element, id and pseudo-element should not occur more then one time inside the selector"

OrderError ==
  "Selector parts should be arranged in the following order: element, id, class, attribute, pseudo-class, pseudo-element"

\* The value the code pushes to this.order in each fragment method.
Rank(selectorType) ==
  CASE selectorType = "element" -> 1
    [] selectorType = "id" -> 2
    [] selectorType = "class" -> 3
    [] selectorType = "attr" -> 4
    [] selectorType = "pseudoClass" -> 5
    [] selectorType = "pseudoElement" -> 6

SelectorTypes == {"element", "id", "class", "attr", "pseudoClass", "pseudoElement"}

\* ------------------------------------------------------------ class Builder

\* constructor(): the fields in the order the constructor assigns them.
NewBuilder ==
  [elem |-> "", idTag |-> "", classes |-> <<>>, attributes |-> <<>>,
   pseudoClasses |-> <<>>, pseudoElem |-> "", order |-> <<>>]

\* Array.prototype.includes
Includes(arr, value) == \E k \in 1..Len(arr) : arr[k] = value

\* isAlreadyDefined(selectorType, value)
isAlreadyDefined(this, selectorType, value) ==
  CASE selectorType = "element" -> this.elem # ""
    [] selectorType = "id" -> this.idTag # ""
    [] selectorType = "class" -> Includes(this.classes, value)
    [] selectorType = "attr" -> Includes(this.attributes, value)
    [] selectorType = "pseudoClass" -> Includes(this.pseudoClasses, value)
    [] selectorType = "pseudoElement" -> this.pseudoElem # ""
    [] OTHER -> FALSE

\* The reduce of checkOrder from index k on with accumulator res: the callback
\* returns val when val >= res and throws otherwise.
RECURSIVE checkOrderReduce(_, _, _)
checkOrderReduce(order, k, res) ==
  IF k > Len(order) THEN [threw |-> FALSE, res |-> res]
  ELSE IF order[k] >= res THEN checkOrderReduce(order, k + 1, order[k])
  ELSE [threw |-> TRUE, res |-> res]

\* Mutant of checkOrder: each rank is compared with the one pushed just
\* before it only when it is the newest, so an old descent is forgotten.
checkOrderLastPair(this) ==
  LET n == Len(this.order)
  IN  [threw |-> n >= 2 /\ this.order[n] < this.order[n - 1],
       res |-> IF n = 0 THEN 0 ELSE this.order[n]]

\* checkOrder(): this.order.reduce(callback, 0)
checkOrder(this) == checkOrderReduce(this.order, 1, 0)

\* Mutant of Entries: the constructor creates idTag before elem.
EntriesIdFirst(this) ==
  << [key |-> "idTag", length |-> Len(this.idTag), flat |-> <<this.idTag>>],
     [key |-> "elem", length |-> Len(this.elem), flat |-> <<this.elem>>],
     [key |-> "classes", length |-> Len(this.classes), flat |-> this.classes],
     [key |-> "attributes", length |-> Len(this.attributes), flat |-> this.attributes],
     [key |-> "pseudoClasses", length |-> Len(this.pseudoClasses),
      flat |-> this.pseudoClasses],
     [key |-> "pseudoElem", length |-> Len(this.pseudoElem), flat |-> <<this.pseudoElem>>],
     [key |-> "order", length |-> Len(this.order), flat |-> this.order] >>

\* Object.entries(this): own properties in creation order, each with its
\* .length and with what flat() makes of it once pushed (a string stays one
\* element, an array is spliced in).
Entries(this) ==
  << [key |-> "elem", length |-> Len(this.elem), flat |-> <<this.elem>>],
     [key |-> "idTag", length |-> Len(this.idTag), flat |-> <<this.idTag>>],
     [key |-> "classes", length |-> Len(this.classes), flat |-> this.classes],
     [key |-> "attributes", length |-> Len(this.attributes), flat |-> this.attributes],
     [key |-> "pseudoClasses", length |-> Len(this.pseudoClasses),
      flat |-> this.pseudoClasses],
     [key |-> "pseudoElem", length |-> Len(this.pseudoElem), flat |-> <<this.pseudoElem>>],
     [key |-> "order", length |-> Len(this.order), flat |-> this.order] >>

\* The reduce of stringify followed by flat(): the entries that are not empty
\* and are not 'order', flattened one level.
RECURSIVE stringifyReduce(_, _)
stringifyReduce(entries, k) ==
  IF k > Len(entries) THEN <<>>
  ELSE (IF entries[k].length > 0 /\ entries[k].key # "order"
        THEN entries[k].flat ELSE <<>>) \o stringifyReduce(entries, k + 1)

\* Array.prototype.join('')
RECURSIVE Join(_)
Join(arr) == IF arr = <<>> THEN "" ELSE Head(arr) \o Join(Tail(arr))

\* stringify(): the string returned.
stringify(this) == Join(stringifyReduce(Entries(this), 1))

\* Mutant of stringifyCall: the reduce accumulates into this.classes instead
\* of a fresh array, so rendering leaves every fragment in the class list.
stringifyCallAccumulating(this) ==
  [this |-> [this EXCEPT !.classes = stringifyReduce(Entries(this), 1)],
   ret |-> stringify(this)]

\* What a stringify() call leaves behind and hands back: the reduce pushes to
\* a fresh accumulator, so `this` is as it was.
stringifyCall(this) == [this |-> this, ret |-> stringify(this)]

\* Mutant of pushAndCheck: checkOrder() runs before the push, so a descent is
\* noticed one call late.
pushAndCheckFirst(this, rank) ==
  [this |-> [this EXCEPT !.order = Append(@, rank)],
   error |-> IF checkOrder(this).threw THEN OrderError ELSE NoError]

\* The tail shared by the six fragment methods: this.order.push(rank);
\* this.checkOrder(); return this;
pushAndCheck(this, rank) ==
  LET pushed == [this EXCEPT !.order = Append(@, rank)]
  IN  [this |-> pushed,
       error |-> IF checkOrder(pushed).threw THEN OrderError ELSE NoError]

\* Mutant of element: the value is stored and the order checked first, the
\* duplicate test comes last.
elementOrderFirst(this, value) ==
  LET r == pushAndCheck([this EXCEPT !.elem = value], 1)
  IN  IF r.error = OrderError THEN r
      ELSE IF isAlreadyDefined(this, "element", "undefined")
      THEN [this |-> r.this, error |-> DuplicateError]
      ELSE r

\* element(value); isAlreadyDefined is called without a value.
element(this, value) ==
  IF isAlreadyDefined(this, "element", "undefined")
  THEN [this |-> this, error |-> DuplicateError]
  ELSE pushAndCheck([this EXCEPT !.elem = value], 1)

\* Mutant of id: check, then mutate; a call that throws leaves no trace.
idAtomic(this, value) ==
  IF isAlreadyDefined(this, "id", "undefined")
  THEN [this |-> this, error |-> DuplicateError]
  ELSE LET r == pushAndCheck([this EXCEPT !.idTag = "#" \o value], 2)
       IN  IF r.error = NoError THEN r ELSE [this |-> this, error |-> r.error]

\* id(value)
id(this, value) ==
  IF isAlreadyDefined(this, "id", "undefined")
  THEN [this |-> this, error |-> DuplicateError]
  ELSE pushAndCheck([this EXCEPT !.idTag = "#" \o value], 2)

\* Mutant of class: it asks isAlreadyDefined, like element, id and pseudoElement.
classUnique(this, value) ==
  IF isAlreadyDefined(this, "class", "." \o value)
  THEN [this |-> this, error |-> DuplicateError]
  ELSE pushAndCheck([this EXCEPT !.classes = Append(@, "." \o value)], 3)

\* class(value)
class(this, value) ==
  pushAndCheck([this EXCEPT !.classes = Append(@, "." \o value)], 3)

\* attr(value)
attr(this, value) ==
  pushAndCheck([this EXCEPT !.attributes = Append(@, "[" \o value \o "]")], 4)

\* pseudoClass(value)
pseudoClass(this, value) ==
  pushAndCheck([this EXCEPT !.pseudoClasses = Append(@, ":" \o value)], 5)

\* pseudoElement(value)
pseudoElement(this, value) ==
  IF isAlreadyDefined(this, "pseudoElement", "undefined")
  THEN [this |-> this, error |-> DuplicateError]
  ELSE pushAndCheck([this EXCEPT !.pseudoElem = "::" \o value], 6)

\* ------------------------------------------------------------------- state

VARIABLES
  heap,      \* the Builder objects created so far, in creation order
  combined,  \* the objects combine returned so far: [result |-> string]
  calls,     \* history: per builder, the fragment calls made on it
             \* ([type, value, error]), the facade's call first
  last       \* the call made last: [op, self, args, ret]

vars == <<heap, combined, calls, last>>

\* A reference to a renderable object: a Builder or a result of combine.
BuilderRef(i) == [type |-> "Builder", at |-> i]
CombinedRef(j) == [type |-> "combined", at |-> j]

Init ==
  /\ heap = <<>>
  /\ combined = <<>>
  /\ calls = <<>>
  /\ last = [op |-> "none", self |-> BuilderRef(0), args |-> <<>>, ret |-> ""]

\* Mutant of Store: the class list is one array shared by every Builder
\* (created once, on the prototype, instead of in the constructor).
StoreSharedClasses(h, i, this) ==
  [j \in DOMAIN h |-> IF j = i THEN this ELSE [h[j] EXCEPT !.classes = this.classes]]

\* Instance fields live in the object they were assigned on: a method call on
\* heap[i] replaces that object's fields and no other's.
Store(h, i, this) == [h EXCEPT ![i] = this]

\* A fragment method called on the existing builder heap[i]; r is what the
\* method did.  The mutation stays whether or not the call threw.
Chain(i, type, value, r) ==
  /\ heap' = Store(heap, i, r.this)
  /\ calls' = [calls EXCEPT ![i] =
                 Append(@, [type |-> type, value |-> value, error |-> r.error])]
  /\ last' = [op |-> type, self |-> BuilderRef(i), args |-> <<value>>, ret |-> r.error]
  /\ UNCHANGED combined

\* A facade method: new Builder(), then the fragment method on it.
Fresh(type, value, r) ==
  /\ heap' = Append(heap, r.this)
  /\ calls' = Append(calls, << [type |-> type, value |-> value, error |-> r.error] >>)
  /\ last' = [op |-> type, self |-> BuilderRef(Len(heap) + 1), args |-> <<value>>,
              ret |-> r.error]
  /\ UNCHANGED combined

CallElement(i, value) == Chain(i, "element", value, element(heap[i], value))
CallId(i, value) == Chain(i, "id", value, id(heap[i], value))
CallClass(i, value) == Chain(i, "class", value, class(heap[i], value))
CallAttr(i, value) == Chain(i, "attr", value, attr(heap[i], value))
CallPseudoClass(i, value) == Chain(i, "pseudoClass", value, pseudoClass(heap[i], value))
CallPseudoElement(i, value) ==
  Chain(i, "pseudoElement", value, pseudoElement(heap[i], value))

FacadeElement(value) == Fresh("element", value, element(NewBuilder, value))
FacadeId(value) == Fresh("id", value, id(NewBuilder, value))
FacadeClass(value) == Fresh("class", value, class(NewBuilder, value))
FacadeAttr(value) == Fresh("attr", value, attr(NewBuilder, value))
FacadePseudoClass(value) == Fresh("pseudoClass", value, pseudoClass(NewBuilder, value))
FacadePseudoElement(value) ==
  Fresh("pseudoElement", value, pseudoElement(NewBuilder, value))

\* builder.stringify() on heap[i]
Stringify(i) ==
  LET r == stringifyCall(heap[i]) IN
  /\ heap' = Store(heap, i, r.this)
  /\ last' = [op |-> "stringify", self |-> BuilderRef(i), args |-> <<>>, ret |-> r.ret]
  /\ UNCHANGED <<combined, calls>>

\* ------------------------------------------------------------------ combine

\* stringify() of the object combine returned: return this.result
combinedStringify(this) == this.result

\* Mutant of operandStringify: a builder handed to combine is rendered and
\* then emptied for reuse.
operandStringifyDraining(h, selector) ==
  IF selector.type = "Builder"
  THEN [heap |-> Store(h, selector.at, NewBuilder), ret |-> stringify(h[selector.at])]
  ELSE [heap |-> h, ret |-> combinedStringify(combined[selector.at])]

\* selector.stringify() as combine calls it on an operand: Builder.stringify
\* for a builder, the returned object's own stringify (this.result) for a
\* result of combine.  h is the heap the call finds and may leave changed.
operandStringify(h, selector) ==
  IF selector.type = "Builder"
  THEN LET r == stringifyCall(h[selector.at])
       IN  [heap |-> Store(h, selector.at, r.this), ret |-> r.ret]
  ELSE [heap |-> h, ret |-> combinedStringify(combined[selector.at])]

\* Mutant of combine: the combinator is not padded with spaces.
combineUnpadded(rendered1, combinator, rendered2) ==
  [result |-> rendered1 \o combinator \o rendered2]

\* The object combine returns, from the two strings the template literal
\* interpolates: `${selector1.stringify()} ${combinator} ${selector2.stringify()}`
combine(rendered1, combinator, rendered2) ==
  [result |-> rendered1 \o " " \o combinator \o " " \o rendered2]

\* cssSelectorBuilder.combine(selector1, combinator, selector2): selector1 is
\* rendered first, then selector2.
Combine(selector1, combinator, selector2) ==
  LET r1 == operandStringify(heap, selector1)
      r2 == operandStringify(r1.heap, selector2)
      obj == combine(r1.ret, combinator, r2.ret)
  IN  /\ heap' = r2.heap
      /\ combined' = Append(combined, obj)
      /\ last' = [op |-> "combine", self |-> CombinedRef(Len(combined) + 1),
                  args |-> <<selector1, combinator, selector2>>, ret |-> obj.result]
      /\ UNCHANGED calls

\* A stringify() call on combined[j].
CombinedStringify(j) ==
  /\ last' = [op |-> "stringify", self |-> CombinedRef(j), args |-> <<>>,
              ret |-> combinedStringify(combined[j])]
  /\ UNCHANGED <<heap, combined, calls>>

\* Every object that has a stringify(): the operands combine accepts.
Renderables ==
  {BuilderRef(i) : i \in 1..Len(heap)} \cup {CombinedRef(j) : j \in 1..Len(combined)}

\* --------------------------------------------------- one builder, one chain

Next ==
  \/ \E value \in Values : heap = <<>> /\ FacadeElement(value)
  \/ \E value \in Values : heap = <<>> /\ FacadeId(value)
  \/ \E value \in Values : heap = <<>> /\ FacadeClass(value)
  \/ \E value \in Values : heap = <<>> /\ FacadeAttr(value)
  \/ \E value \in Values : heap = <<>> /\ FacadePseudoClass(value)
  \/ \E value \in Values : heap = <<>> /\ FacadePseudoElement(value)
  \/ \E i \in 1..Len(heap), value \in Values :
       Len(calls[i]) < MaxCalls /\ CallElement(i, value)
  \/ \E i \in 1..Len(heap), value \in Values :
       Len(calls[i]) < MaxCalls /\ CallId(i, value)
  \/ \E i \in 1..Len(heap), value \in Values :
       Len(calls[i]) < MaxCalls /\ CallClass(i, value)
  \/ \E i \in 1..Len(heap), value \in Values :
       Len(calls[i]) < MaxCalls /\ CallAttr(i, value)
  \/ \E i \in 1..Len(heap), value \in Values :
       Len(calls[i]) < MaxCalls /\ CallPseudoClass(i, value)
  \/ \E i \in 1..Len(heap), value \in Values :
       Len(calls[i]) < MaxCalls /\ CallPseudoElement(i, value)
  \/ \E i \in 1..Len(heap) : Stringify(i)

Spec == Init /\ [][Next]_vars

\* ------------------------------------- several builders, combined and nested

RECURSIVE CallCount(_)
CallCount(cs) == IF cs = <<>> THEN 0 ELSE Len(Head(cs)) + CallCount(Tail(cs))

\* Fragment calls and combine calls made so far.
Ops == CallCount(calls) + Len(combined)

NextCombine ==
  \/ \E value \in CombineValues : Ops < MaxOps /\ FacadeElement(value)
  \/ \E value \in CombineValues : Ops < MaxOps /\ FacadeId(value)
  \/ \E value \in CombineValues : Ops < MaxOps /\ FacadeClass(value)
  \/ \E value \in CombineValues : Ops < MaxOps /\ FacadeAttr(value)
  \/ \E value \in CombineValues : Ops < MaxOps /\ FacadePseudoClass(value)
  \/ \E value \in CombineValues : Ops < MaxOps /\ FacadePseudoElement(value)
  \/ \E i \in 1..Len(heap), value \in CombineValues :
       Ops < MaxOps /\ CallElement(i, value)
  \/ \E i \in 1..Len(heap), value \in CombineValues :
       Ops < MaxOps /\ CallId(i, value)
  \/ \E i \in 1..Len(heap), value \in CombineValues :
       Ops < MaxOps /\ CallClass(i, value)
  \/ \E i \in 1..Len(heap), value \in CombineValues :
       Ops < MaxOps /\ CallAttr(i, value)
  \/ \E i \in 1..Len(heap), value \in CombineValues :
       Ops < MaxOps /\ CallPseudoClass(i, value)
  \/ \E i \in 1..Len(heap), value \in CombineValues :
       Ops < MaxOps /\ CallPseudoElement(i, value)
  \/ \E i \in 1..Len(heap) : Stringify(i)
  \/ \E selector1 \in Renderables, selector2 \in Renderables,
        combinator \in Combinators :
       Ops < MaxOps /\ Combine(selector1, combinator, selector2)
  \/ \E j \in 1..Len(combined) : CombinedStringify(j)

SpecCombine == Init /\ [][NextCombine]_vars

\* ------------------------------------------------ vocabulary of the claims

\* The greatest rank in a category sequence, 0 for the empty one.
RECURSIVE MaxRank(_)
MaxRank(order) ==
  IF order = <<>> THEN 0
  ELSE LET m == MaxRank(Tail(order)) IN IF Head(order) > m THEN Head(order) ELSE m

NonDecreasing(order) == \A k \in 1..(Len(order) - 1) : order[k] <= order[k + 1]

\* The text a fragment call contributes to the selector, as the doc comment
\* writes it: element#id.class[attr]:pseudoClass::pseudoElement
Formatted(type, value) ==
  CASE type = "element" -> value
    [] type = "id" -> "#" \o value
    [] type = "class" -> "." \o value
    [] type = "attr" -> "[" \o value \o "]"
    [] type = "pseudoClass" -> ":" \o value
    [] type = "pseudoElement" -> "::" \o value

\* The field of a builder that holds the fragments of a type.
Field(this, type) ==
  CASE type = "element" -> this.elem
    [] type = "id" -> this.idTag
    [] type = "class" -> this.classes
    [] type = "attr" -> this.attributes
    [] type = "pseudoClass" -> this.pseudoClasses
    [] type = "pseudoElement" -> this.pseudoElem

SingleTypes == {"element", "id", "pseudoElement"}
ListTypes == {"class", "attr", "pseudoClass"}

\* Builder i and its history before the step; a facade call starts from a
\* builder the constructor has just made.
Before(i) == IF i <= Len(heap) THEN heap[i] ELSE NewBuilder
CallsBefore(i) == IF i <= Len(calls) THEN calls[i] ELSE <<>>

\* The step is a fragment call on builder i, and the call it is.
Called(i) == Len(calls'[i]) = Len(CallsBefore(i)) + 1
TheCall(i) == calls'[i][Len(calls'[i])]

\* How many elements of a sequence equal x.
RECURSIVE Count(_, _)
Count(arr, x) ==
  IF arr = <<>> THEN 0 ELSE (IF Head(arr) = x THEN 1 ELSE 0) + Count(Tail(arr), x)

\* The calls of one type in a history, in call order, formatted and concatenated.
RECURSIVE Rendered(_, _)
Rendered(cs, type) ==
  IF cs = <<>> THEN ""
  ELSE (IF Head(cs).type = type THEN Formatted(type, Head(cs).value) ELSE "")
       \o Rendered(Tail(cs), type)

\* A history whose ranks never decrease and in which element, id and
\* pseudoElement occur at most once each.
ValidChain(cs) ==
  /\ \A k \in 1..(Len(cs) - 1) : Rank(cs[k].type) <= Rank(cs[k + 1].type)
  /\ \A k, l \in 1..Len(cs) : cs[k].type = cs[l].type /\ cs[k].type \in SingleTypes => k = l

\* ------------------------------------------------------------------ claims

\* C1 as stated: a call of rank R on a builder to which a rank greater than R
\* was appended earlier raises the order-violation error and no other error.
C1_AlwaysOrderError ==
  [][\A i \in 1..Len(heap') :
       Called(i) /\ MaxRank(Before(i).order) > Rank(TheCall(i).type)
         => TheCall(i).error = OrderError]_vars

\* C1 amended: such a call raises the order-violation error, except that
\* element() on a builder whose stored element is not empty and id() on a
\* builder whose id is set raise the duplicate error instead.
C1_OrderErrorUnlessDuplicate ==
  [][\A i \in 1..Len(heap') :
       Called(i) /\ MaxRank(Before(i).order) > Rank(TheCall(i).type)
         => TheCall(i).error =
              IF \/ TheCall(i).type = "element" /\ Before(i).elem # ""
                 \/ TheCall(i).type = "id" /\ Before(i).idTag # ""
              THEN DuplicateError ELSE OrderError]_vars

\* C1's case: id() after class() has raised the order-violation error.
C1_Witness ==
  \E i \in 1..Len(calls) :
    /\ Len(calls[i]) = 2
    /\ calls[i][1].type = "class"
    /\ calls[i][2].type = "id"
    /\ calls[i][2].error = OrderError

\* C2 as stated: a call to element(), id() or pseudoElement() on a builder on
\* which the same method was called before raises the duplicate error and
\* leaves the stored value as it was, whatever the strings.
C2_SetAtMostOnce ==
  [][\A i \in 1..Len(heap) :
       /\ Called(i)
       /\ TheCall(i).type \in SingleTypes
       /\ \E k \in 1..Len(calls[i]) : calls[i][k].type = TheCall(i).type
       => /\ TheCall(i).error = DuplicateError
          /\ Field(heap'[i], TheCall(i).type) = Field(heap[i], TheCall(i).type)]_vars

\* C3: a valid chain raises nothing and renders as the element, the id, the
\* classes, the attributes, the pseudo-classes and the pseudo-element, each
\* category in call order, with nothing between them; the two chains of the
\* doc comment render as it says.
C3_ValidChainRenders ==
  /\ \A i \in 1..Len(heap) :
       ValidChain(calls[i]) =>
         /\ \A k \in 1..Len(calls[i]) : calls[i][k].error = NoError
         /\ stringify(heap[i]) =
              Rendered(calls[i], "element") \o Rendered(calls[i], "id")
                \o Rendered(calls[i], "class") \o Rendered(calls[i], "attr")
                \o Rendered(calls[i], "pseudoClass")
                \o Rendered(calls[i], "pseudoElement")
  /\ stringify(class(class(id(NewBuilder, "main").this, "container").this,
                     "editable").this) = "#main.container.editable"
  /\ stringify(pseudoClass(attr(element(NewBuilder, "a").this, "href$=\".png\"").this,
                           "focus").this) = "a[href$=\".png\"]:focus"

\* C3's case: a valid chain of three calls with two classes in it.
C3_Witness ==
  \E i \in 1..Len(heap) :
    /\ ValidChain(calls[i])
    /\ Len(calls[i]) = 3
    /\ calls[i][1].type = "id"
    /\ calls[i][2] = [type |-> "class", value |-> "b", error |-> NoError]
    /\ calls[i][3] = [type |-> "class", value |-> "a", error |-> NoError]
    /\ last.op = "stringify" /\ last.ret = "#" \o calls[i][1].value \o ".b.a"

\* C4: class(), attr() and pseudoClass() called in non-decreasing category
\* order never raise, whatever was stored before; the formatted value is
\* appended to the list, where it occurs once more than before, and the
\* rendering gains it at the end of its category.
C4_ListCallsAppend ==
  [][\A i \in 1..Len(heap') :
       /\ Called(i)
       /\ TheCall(i).type \in ListTypes
       /\ NonDecreasing(Before(i).order)
       /\ MaxRank(Before(i).order) <= Rank(TheCall(i).type)
       => LET type == TheCall(i).type
              text == Formatted(type, TheCall(i).value)
              old == Before(i)
          IN  /\ TheCall(i).error = NoError
              /\ Field(heap'[i], type) = Append(Field(old, type), text)
              /\ Count(Field(heap'[i], type), text) = Count(Field(old, type), text) + 1
              /\ stringify(heap'[i]) =
                   old.elem \o old.idTag \o Join(old.classes)
                     \o (IF type = "class" THEN text ELSE "")
                     \o Join(old.attributes)
                     \o (IF type = "attr" THEN text ELSE "")
                     \o Join(old.pseudoClasses)
                     \o (IF type = "pseudoClass" THEN text ELSE "")
                     \o old.pseudoElem]_vars

\* C4's case: the same class given twice, then the same attribute value.
C4_Witness ==
  \E i \in 1..Len(heap) :
    /\ Len(calls[i]) = 3
    /\ calls[i][1] = [type |-> "class", value |-> "a", error |-> NoError]
    /\ calls[i][2] = [type |-> "class", value |-> "a", error |-> NoError]
    /\ calls[i][3] = [type |-> "attr", value |-> "a", error |-> NoError]
    /\ heap[i].classes = <<".a", ".a">>

\* What a renderable object's stringify() returns in the current state.
Render(selector) ==
  IF selector.type = "Builder" THEN stringify(heap[selector.at])
  ELSE combinedStringify(combined[selector.at])

\* The categories of a builder, concatenated in the order of the doc comment.
ByCategory(this) ==
  this.elem \o this.idTag \o Join(this.classes) \o Join(this.attributes)
    \o Join(this.pseudoClasses) \o this.pseudoElem

\* Some call of the history raised the order-violation error.
RaisedOrderError(cs) == \E k \in 1..Len(cs) : cs[k].error = OrderError

\* C5: the object combine(a, s, b) returns renders as a's rendering, a space,
\* s, a space, b's rendering, also when s is a space and when a or b is itself
\* a result of combine; the nested example of the doc comment, computed as
\* the code computes it, has three spaces where the combinator is a space.
C5_CombineJoinsWithSpaces ==
  [][/\ last'.op = "combine" /\ Len(combined') = Len(combined) + 1
        => combinedStringify(combined'[Len(combined')]) =
             Render(last'.args[1]) \o " " \o last'.args[2] \o " "
               \o Render(last'.args[3])
     /\ combinedStringify(
          combine("div#main.container.draggable", "+",
            combinedStringify(
              combine("table#data", "~",
                combinedStringify(
                  combine("tr:nth-of-type(even)", " ", "td:nth-of-type(even)"))))))
        = "div#main.container.draggable + table#data ~ tr:nth-of-type(even)   td:nth-of-type(even)"
    ]_vars

\* C5's case: a result of combine combined again, with a space as combinator.
C5_Witness ==
  /\ last.op = "combine"
  /\ last.args[1].type = "combined"
  /\ last.args[2] = " "
  /\ last.args[3].type = "Builder"
  /\ combined[Len(combined)].result =
       combined[last.args[1].at].result \o "   " \o stringify(heap[last.args[3].at])

\* C6 as stated: the category sequence of every builder is non-decreasing in
\* every reachable state.
C6_OrderNonDecreasing == \A i \in 1..Len(heap) : NonDecreasing(heap[i].order)

\* C6 amended: the category sequence of a builder is non-decreasing as long as
\* no call on it has raised the order-violation error (calls that raised the
\* duplicate error included), and decreasing somewhere once one has.
C6_NonDecreasingUntilOrderError ==
  \A i \in 1..Len(heap) :
    NonDecreasing(heap[i].order) <=> ~RaisedOrderError(calls[i])

\* C6's case: a builder on which a call raised the duplicate error and a
\* later call succeeded.
C6_Witness ==
  \E i \in 1..Len(heap) :
    /\ Len(calls[i]) = 3
    /\ calls[i][2].error = DuplicateError
    /\ calls[i][3].error = NoError
    /\ Len(heap[i].order) = 2
    /\ NonDecreasing(heap[i].order)

\* C7: stringify() on a builder changes no builder and no history, in clean
\* and in dirty states alike, and returns the categories concatenated; every
\* fragment call then does what it would have done without it.
C7_StringifyObserves ==
  [][\A i \in 1..Len(heap) :
       last' # last /\ last'.op = "stringify" /\ last'.self = BuilderRef(i)
         => /\ heap' = heap
            /\ calls' = calls
            /\ combined' = combined
            /\ last'.ret = ByCategory(heap[i])
            /\ \A v \in Values :
                 /\ element(heap'[i], v) = element(heap[i], v)
                 /\ id(heap'[i], v) = id(heap[i], v)
                 /\ class(heap'[i], v) = class(heap[i], v)
                 /\ attr(heap'[i], v) = attr(heap[i], v)
                 /\ pseudoClass(heap'[i], v) = pseudoClass(heap[i], v)
                 /\ pseudoElement(heap'[i], v) = pseudoElement(heap[i], v)]_vars

\* C7's case: stringify() on a builder left behind by a call that raised.
C7_Witness ==
  \E i \in 1..Len(heap) :
    /\ last.op = "stringify" /\ last.self = BuilderRef(i)
    /\ RaisedOrderError(calls[i])
    /\ Len(last.ret) > 0

\* C8: a facade call makes a new builder that holds the one fragment and a
\* category sequence of length one, and a fragment call on one builder,
\* raising or not, leaves every other builder, its history and its rendering
\* as they were.
C8_BuildersAreSeparate ==
  [][\A i \in 1..Len(heap') :
       Called(i) =>
         /\ i > Len(heap) =>
              /\ Len(heap') = Len(heap) + 1
              /\ TheCall(i).error = NoError
              /\ heap'[i].order = <<Rank(TheCall(i).type)>>
              /\ \A type \in SelectorTypes :
                   Field(heap'[i], type) =
                     IF type = TheCall(i).type
                     THEN (IF type \in ListTypes
                           THEN <<Formatted(type, TheCall(i).value)>>
                           ELSE Formatted(type, TheCall(i).value))
                     ELSE (IF type \in ListTypes THEN <<>> ELSE "")
         /\ \A j \in 1..Len(heap) :
              j # i => /\ heap'[j] = heap[j]
                       /\ calls'[j] = calls[j]
                       /\ stringify(heap'[j]) = stringify(heap[j])]_vars

\* C8's case: two builders, and a call on the first, made after the second
\* was created, that raised.
C8_Witness ==
  /\ Len(heap) = 2
  /\ last.self = BuilderRef(1)
  /\ last.ret = OrderError
  /\ Len(calls[1]) = 2
  /\ Len(heap[2].classes) = 1

\* C9 as stated: in every reachable state a call that does not raise the
\* duplicate error raises the order-violation error exactly when its rank is
\* below the greatest rank appended before.
C9_OrderErrorIffBelowMax ==
  [][\A i \in 1..Len(heap') :
       Called(i) /\ TheCall(i).error # DuplicateError
         => (TheCall(i).error = OrderError
               <=> Rank(TheCall(i).type) < MaxRank(Before(i).order))]_vars

\* C9 amended: that holds in the states in which no earlier call on the
\* builder raised the order-violation error; after one did, every call that
\* does not raise the duplicate error raises the order-violation error,
\* whatever its rank.
C9_OrderErrorIffBelowMaxOrDirty ==
  [][\A i \in 1..Len(heap') :
       Called(i) /\ TheCall(i).error # DuplicateError
         => (TheCall(i).error = OrderError
               <=> \/ Rank(TheCall(i).type) < MaxRank(Before(i).order)
                   \/ RaisedOrderError(CallsBefore(i)))]_vars

\* C9's case: after id() raised behind class(), pseudoClass(), whose rank is
\* above everything appended, raises too.
C9_Witness ==
  \E i \in 1..Len(heap) :
    /\ Len(calls[i]) = 3
    /\ calls[i][1].type = "class" /\ calls[i][1].error = NoError
    /\ calls[i][2].type = "id" /\ calls[i][2].error = OrderError
    /\ calls[i][3].type = "pseudoClass" /\ calls[i][3].error = OrderError

\* C10: a call that raises the order-violation error has stored its formatted
\* value in the field or at the end of the list and appended its rank, and the
\* builder renders with the rejected fragment in its category; class('a')
\* followed by the failing id('b') renders '#b.a'.
C10_MutationBeforeOrderError ==
  [][\A i \in 1..Len(heap') :
       Called(i) /\ TheCall(i).error = OrderError
         => LET type == TheCall(i).type
                text == Formatted(type, TheCall(i).value)
                old == Before(i)
            IN  /\ Field(heap'[i], type) =
                     IF type \in ListTypes THEN Append(Field(old, type), text) ELSE text
                /\ heap'[i].order = Append(old.order, Rank(type))
                /\ stringify(heap'[i]) =
                     (IF type = "element" THEN text ELSE old.elem)
                       \o (IF type = "id" THEN text ELSE old.idTag)
                       \o Join(old.classes) \o (IF type = "class" THEN text ELSE "")
                       \o Join(old.attributes) \o (IF type = "attr" THEN text ELSE "")
                       \o Join(old.pseudoClasses)
                       \o (IF type = "pseudoClass" THEN text ELSE "")
                       \o (IF type = "pseudoElement" THEN text ELSE old.pseudoElem)
                /\ (/\ calls'[i][1] = [type |-> "class", value |-> "a", error |-> NoError]
                    /\ Len(calls'[i]) = 2 /\ type = "id" /\ TheCall(i).value = "b")
                   => stringify(heap'[i]) = "#b.a"]_vars

\* C10's case: class('a'), the failing id('b'), and a stringify() after it.
C10_Witness ==
  \E i \in 1..Len(heap) :
    /\ calls[i] = << [type |-> "class", value |-> "a", error |-> NoError],
                     [type |-> "id", value |-> "b", error |-> OrderError] >>
    /\ last.op = "stringify" /\ last.self = BuilderRef(i) /\ last.ret = "#b.a"

\* C11: once a call on a builder has raised the order-violation error, every
\* later fragment call on that builder, whatever its type and value, raises
\* the order-violation or the duplicate error.
C11_OrderErrorIsPermanent ==
  [][\A i \in 1..Len(heap') :
       Called(i) /\ RaisedOrderError(CallsBefore(i))
         => TheCall(i).error \in {OrderError, DuplicateError}]_vars

\* C11's case: after id() raised behind class(), pseudoElement(), the highest
\* rank there is, raises the order-violation error.
C11_Witness ==
  \E i \in 1..Len(heap) :
    /\ Len(calls[i]) = 3
    /\ calls[i][1].type = "class" /\ calls[i][1].error = NoError
    /\ calls[i][2].type = "id" /\ calls[i][2].error = OrderError
    /\ calls[i][3].type = "pseudoElement" /\ calls[i][3].error = OrderError

\* C12: a call that raises the duplicate error is a call to element(), id()
\* or pseudoElement() on a builder whose field is already set (not empty), and
\* it leaves the builder, category sequence included, exactly as it was; a
\* call on a field already set raises the duplicate error also when its rank
\* is below a rank appended earlier.
C12_DuplicateErrorChangesNothing ==
  [][\A i \in 1..Len(heap') :
       Called(i) =>
         /\ TheCall(i).error = DuplicateError
              => /\ i <= Len(heap)
                 /\ heap'[i] = heap[i]
                 /\ TheCall(i).type \in SingleTypes
                 /\ Field(heap[i], TheCall(i).type) # ""
         /\ (TheCall(i).type \in SingleTypes /\ Field(Before(i), TheCall(i).type) # "")
              => TheCall(i).error = DuplicateError]_vars

\* C12's case: element() called again after class(): a duplicate that is out
\* of order too; the duplicate error is raised and nothing has changed.
C12_Witness ==
  \E i \in 1..Len(heap) :
    /\ calls[i] = << [type |-> "element", value |-> "a", error |-> NoError],
                     [type |-> "class", value |-> "a", error |-> NoError],
                     [type |-> "element", value |-> "b", error |-> DuplicateError] >>
    /\ heap[i].elem = "a"
    /\ heap[i].order = <<1, 3>>

\* C13: combine leaves every builder and every history as it was and returns
\* an object holding the operands' renderings of that moment; no later step,
\* fragment calls on the operands included, changes an object combine has
\* returned, and its stringify() returns the string it holds.
C13_CombineRendersOnce ==
  [][/\ last'.op = "combine" /\ Len(combined') = Len(combined) + 1
        => /\ heap' = heap
           /\ calls' = calls
           /\ combined'[Len(combined')].result =
                Render(last'.args[1]) \o " " \o last'.args[2] \o " "
                  \o Render(last'.args[3])
     /\ \A j \in 1..Len(combined) :
          /\ combined'[j] = combined[j]
          /\ (last' # last /\ last'.op = "stringify" /\ last'.self = CombinedRef(j))
               => /\ last'.ret = combined[j].result
                  /\ heap' = heap
    ]_vars

\* C13's case: a builder combined with itself, then a fragment call on it that
\* raised and changed its rendering, then stringify() on the combined object,
\* which returns the string made before that call.
C13_Witness ==
  /\ Len(heap) = 1 /\ Len(combined) = 1 /\ Len(calls[1]) = 2
  /\ calls[1][2].error = OrderError
  /\ last.op = "stringify" /\ last.self = CombinedRef(1)
  /\ last.ret = combined[1].result
  /\ \A s \in Combinators :
       last.ret # stringify(heap[1]) \o " " \o s \o " " \o stringify(heap[1])

====
